---- MODULE Spec2Model ----
(***************************************************************************)
(* Model of the stock-analysis request pipeline:                           *)
(*   src/src/lib/eastmoney.ts      toSecId, fetchKline, the four dividend  *)
(*                                 sources, isLikelyEtfOrFund              *)
(*   src/src/app/api/stock/route.ts  GET /api/stock                        *)
(*   src/unnamed/part_001          the page's return simulation (useMemo)  *)
(*                                                                         *)
(* Strings are sequences of one-character strings.  Amounts (prices and    *)
(* cash per share) are integers in thousandths of a yuan; percentages are  *)
(* integers in hundredths of a percent once rounded.  A calendar date is   *)
(* <<year, day>>.  JS null/undefined is the empty sequence Null and a      *)
(* present value v is <<v>>.  The simulation computes in exact rationals   *)
(* <<n, d>>.                                                               *)
(***************************************************************************)
EXTENDS Integers, Sequences, FiniteSets, TLC

\* ------------------------------------------------------------ bounds ----
\* longest price history answered by the price source
MaxBars == 2
\* most raw rows carried by one dividend-source answer
MaxRows == 2
\* longest tail appended to the two leading characters of a resolver input
MaxTail == 5
\* most yearly records of a simulated result
MaxSimRows == 3

\* ------------------------------------------------------- JS values ------
Null == <<>>
Some(v) == <<v>>

\* Number(...) of a non-numeric text; every comparison with it is false
NaN == -999999

JsGt(a, b) == a # NaN /\ b # NaN /\ a > b
JsLt(a, b) == a # NaN /\ b # NaN /\ a < b
JsLe(a, b) == a # NaN /\ b # NaN /\ a <= b

\* ---------------------------------------------------------- strings -----
Digits == {"0", "1", "2", "3", "4", "5", "6", "7", "8", "9"}
Whitespace == {" ", "\t"}
Alphabet == Digits \cup Whitespace \cup {"a"}

\* symbol.replace(/\s/g, "")
StripWhitespace(s) == SelectSeq(s, LAMBDA c : c \notin Whitespace)

RECURSIVE TrimStart(_)
TrimStart(s) ==
    IF s # <<>> /\ Head(s) \in Whitespace THEN TrimStart(Tail(s)) ELSE s

RECURSIVE TrimEnd(_)
TrimEnd(s) ==
    IF s # <<>> /\ s[Len(s)] \in Whitespace
    THEN TrimEnd(SubSeq(s, 1, Len(s) - 1))
    ELSE s

\* a plausible slip: the parameter used untrimmed
Trim_None(s) == s

\* String.prototype.trim
Trim(s) == TrimEnd(TrimStart(s))

\* raw.match(/^(\d{6})$/)
MatchSixDigits(raw) == Len(raw) = 6 /\ \A i \in 1..6 : raw[i] \in Digits

\* code.slice(0, 2)
Slice2(code) == SubSeq(code, 1, IF Len(code) < 2 THEN Len(code) ELSE 2)

\* ------------------------------------------------- Ticker Resolver ------
\* a plausible slip: the two-digit Shenzhen rule (15/16) left out
toSecId_NoSzFundRule(symbol) ==
    LET raw == StripWhitespace(symbol) IN
    IF MatchSixDigits(raw)
    THEN LET code == raw
             first == code[1]
             first2 == Slice2(code)
         IN  IF first \in {"6", "5", "9"}
             THEN Some([secid |-> <<"1", ".">> \o code, market |-> "sh"])
             ELSE IF first2 \in {<<"5", "1">>, <<"5", "6">>, <<"5", "8">>}
             THEN Some([secid |-> <<"1", ".">> \o code, market |-> "sh"])
             ELSE IF first \in {"0", "3"}
             THEN Some([secid |-> <<"0", ".">> \o code, market |-> "sz"])
             ELSE Null
    ELSE Null

toSecId(symbol) ==
    LET raw == StripWhitespace(symbol) IN
    IF MatchSixDigits(raw)
    THEN LET code == raw
             first == code[1]
             first2 == Slice2(code)
         IN  IF first \in {"6", "5", "9"}
             THEN Some([secid |-> <<"1", ".">> \o code, market |-> "sh"])
             ELSE IF first2 \in {<<"5", "1">>, <<"5", "6">>, <<"5", "8">>}
             THEN Some([secid |-> <<"1", ".">> \o code, market |-> "sh"])
             ELSE IF first \in {"0", "3"}
             THEN Some([secid |-> <<"0", ".">> \o code, market |-> "sz"])
             ELSE IF first2 \in {<<"1", "5">>, <<"1", "6">>}
             THEN Some([secid |-> <<"0", ".">> \o code, market |-> "sz"])
             ELSE Null
    ELSE Null

\* secid.split(".")[1]: the text between the first and the second "."
RECURSIVE UntilDot(_)
UntilDot(s) ==
    IF s = <<>> \/ Head(s) = "." THEN <<>> ELSE <<Head(s)>> \o UntilDot(Tail(s))

RECURSIVE AfterDot(_)
AfterDot(s) ==
    IF s = <<>> THEN Null
    ELSE IF Head(s) = "." THEN Some(UntilDot(Tail(s)))
    ELSE AfterDot(Tail(s))

\* secid.split(".")[1] ?? symbol
SecurityCode(secid, sym) ==
    IF AfterDot(secid) = Null THEN sym ELSE AfterDot(secid)[1]

\* a plausible slip: every six-digit code taken for a fund
isLikelyEtfOrFund_AnyCode(securityCode) == Len(securityCode) = 6

isLikelyEtfOrFund(securityCode) ==
    IF Len(securityCode) # 6 THEN FALSE
    ELSE LET first2 == Slice2(securityCode) IN
         \/ first2 = <<"5", "1">>
         \/ first2 = <<"5", "6">>
         \/ first2 = <<"5", "8">>
         \/ first2 = <<"1", "5">>
         \/ first2 = <<"1", "6">>

\* ------------------------------------------------------ small helpers ---
SeqsUpTo(S, n) == UNION {[1..k -> S] : k \in 0..n}

EmptyMap == [k \in {} |-> 0]

\* Map.prototype.set
MapSet(m, k, v) == [x \in DOMAIN m \cup {k} |-> IF x = k THEN v ELSE m[x]]

\* Math.round(n / d) for d > 0: halves go up
RoundDiv(n, d) == (2 * n + d) \div (2 * d)

\* Math.round(x * 100) / 100 of an amount in thousandths, in hundredths
Round2(x) == RoundDiv(x, 10)

\* a JS number used as a condition
Truthy(v) == v # 0 /\ v # NaN

\* ------------------------------------------------- Price History --------
Year(date) == date[1]

DateLt(a, b) == a[1] < b[1] \/ (a[1] = b[1] /\ a[2] < b[2])

Dates == {<<2023, 1>>, <<2023, 2>>, <<2024, 1>>}
Closes == {0, 10004, 12000}
Bars == [date : Dates, close : Closes]

\* the price source lists trading days earliest first
BarLists ==
    {l \in SeqsUpTo(Bars, MaxBars) :
        \A i \in 1..Len(l) - 1 : DateLt(l[i].date, l[i + 1].date)}

\* what one outbound call of fetchKline can meet
KlineOutcomes ==
    {[kind |-> k, klines |-> <<>>] : k \in {"throw", "notok", "badbody"}}
    \cup {[kind |-> "ok", klines |-> l] : l \in BarLists}

Thrown(message) == [threw |-> TRUE, message |-> message, value |-> <<>>]
Returned(value) == [threw |-> FALSE, message |-> "", value |-> value]

\* a plausible slip: a non-successful status answered as an empty history
fetchKline_StatusIgnored(outcome) ==
    IF outcome.kind = "throw" THEN Thrown("network error")
    ELSE IF outcome.kind = "notok" THEN Returned(<<>>)
    ELSE IF outcome.kind = "badbody" THEN Thrown("invalid json")
    ELSE IF Len(outcome.klines) = 0 THEN Thrown("no kline data returned")
    ELSE Returned(outcome.klines)

fetchKline(outcome) ==
    IF outcome.kind = "throw" THEN Thrown("network error")
    ELSE IF outcome.kind = "notok" THEN Thrown("kline request failed: status")
    ELSE IF outcome.kind = "badbody" THEN Thrown("invalid json")
    ELSE IF Len(outcome.klines) = 0 THEN Thrown("no kline data returned")
    ELSE Returned(outcome.klines)

\* ------------------------------------------------- Dividend sources -----
MinYear == 1990
MaxYear == 2100

\* raw rows as a source may answer them: usable rows in a year that has
\* price bars (2023) and in one that has none (2022), a row of the boundary
\* year, and rows whose date or amount is unusable
RawRows ==
    {[cash |-> 4, year |-> 2023],
     [cash |-> 250, year |-> 2023],
     [cash |-> 250, year |-> 2022],
     [cash |-> 4, year |-> 1990],
     [cash |-> 4, year |-> NaN],
     [cash |-> NaN, year |-> 2023],
     [cash |-> 0, year |-> 2023]}

\* fhyx rows: profile is the payout per 10 shares named by
\* IMPL_PLAN_PROFILE, NaN when the text names none
FhyxRows ==
    {[profile |-> 40, year |-> 2023],
     [profile |-> 2500, year |-> 2023],
     [profile |-> 2500, year |-> 2022],
     [profile |-> 40, year |-> 1990],
     [profile |-> 40, year |-> NaN],
     [profile |-> NaN, year |-> 2023],
     [profile |-> 0, year |-> 2023]}

\* /(\d{4})/ always yields a number
PageRows == {r \in RawRows : r.year # NaN}

Event(year, cash) == [year |-> year, cashPerShare |-> cash]
RowEvent(r) == Event(r.year, r.cash)

PlausibleYear(year) == JsGt(year, MinYear) /\ JsLt(year, MaxYear)

\* fetchDividend's row loop
DatacenterKeeps(r) == r.cash # NaN /\ ~JsLe(r.cash, 0) /\ r.year # NaN
ParseDatacenter(rows) ==
    LET kept == SelectSeq(rows, DatacenterKeeps) IN
    [i \in 1..Len(kept) |-> RowEvent(kept[i])]

parseCashPerShareFromProfile(profile) ==
    IF profile = NaN THEN Null
    ELSE IF profile <= 0 THEN Null
    ELSE Some(profile \div 10)

FhyxKeeps(r) ==
    /\ parseCashPerShareFromProfile(r.profile) # Null
    /\ PlausibleYear(r.year)
FhyxEvent(r) == Event(r.year, parseCashPerShareFromProfile(r.profile)[1])
ParseFhyx(rows) ==
    LET kept == SelectSeq(rows, FhyxKeeps) IN
    [i \in 1..Len(kept) |-> FhyxEvent(kept[i])]

SgbhKeeps(r) == r.cash # NaN /\ ~JsLe(r.cash, 0) /\ PlausibleYear(r.year)
ParseSgbh(rows) ==
    LET kept == SelectSeq(rows, SgbhKeeps) IN
    [i \in 1..Len(kept) |-> RowEvent(kept[i])]

\* fhyx first; the legacy sgbh list when fhyx gave nothing
ParseF10(json) ==
    LET fromFhyx == ParseFhyx(json.fhyx) IN
    IF Len(json.fhyx) > 0 /\ Len(fromFhyx) > 0
    THEN fromFhyx
    ELSE ParseSgbh(json.sgbh)

QuoteKeeps(r) == PlausibleYear(r.year) /\ r.cash # NaN /\ JsGt(r.cash, 0)
ParseQuote(rows) ==
    LET kept == SelectSeq(rows, QuoteKeeps) IN
    [i \in 1..Len(kept) |-> RowEvent(kept[i])]

PageKeeps(r) == PlausibleYear(r.year) /\ r.cash # NaN /\ JsGt(r.cash, 0)
ParsePageRows(rows) ==
    LET kept == SelectSeq(rows, PageKeeps) IN
    [i \in 1..Len(kept) |-> RowEvent(kept[i])]

\* the three patterns, each tried only when the one before gave nothing
ParsePage(html) ==
    LET result1 == ParsePageRows(html.rows1)
        result2 == ParsePageRows(html.rows2)
    IN  IF Len(result1) # 0 THEN result1
        ELSE IF Len(result2) # 0 THEN result2
        ELSE ParsePageRows(html.rows3)

\* ------------------------------------------------- Yearly Metrics -------
\* first close seen per year
RECURSIVE ScanFirst(_, _)
ScanFirst(rows, m) ==
    IF rows = <<>> THEN m
    ELSE LET y == Year(Head(rows).date) IN
         ScanFirst(Tail(rows),
                   IF y \in DOMAIN m THEN m ELSE MapSet(m, y, Head(rows).close))

\* latest close seen per year
RECURSIVE ScanLast(_, _)
ScanLast(rows, m) ==
    IF rows = <<>> THEN m
    ELSE ScanLast(Tail(rows), MapSet(m, Year(Head(rows).date), Head(rows).close))

\* a plausible slip: the has(y) test left out, later bars overwrite
FirstPriceByYear_Overwritten(rows) == ScanLast(rows, EmptyMap)

FirstPriceByYear(rows) == ScanFirst(rows, EmptyMap)
LastPriceByYear(rows) == ScanLast(rows, EmptyMap)

\* a plausible slip: byYear.set(d.year, d.cashPerShare)
RECURSIVE GroupOverwrite(_, _)
GroupOverwrite(ds, m) ==
    IF ds = <<>> THEN m
    ELSE GroupOverwrite(Tail(ds), MapSet(m, Head(ds).year, Head(ds).cashPerShare))

ByYear_Overwrite(ds) == GroupOverwrite(ds, EmptyMap)

\* byYear.set(d.year, (byYear.get(d.year) ?? 0) + d.cashPerShare)
RECURSIVE GroupSum(_, _)
GroupSum(ds, m) ==
    IF ds = <<>> THEN m
    ELSE LET d == Head(ds)
             old == IF d.year \in DOMAIN m THEN m[d.year] ELSE 0
         IN  GroupSum(Tail(ds), MapSet(m, d.year, old + d.cashPerShare))

ByYear(ds) == GroupSum(ds, EmptyMap)

\* a plausible slip: only the years of the price bars
AllYears_PriceOnly(rows, ds) == DOMAIN FirstPriceByYear(rows)

AllYears(rows, ds) == DOMAIN FirstPriceByYear(rows) \cup DOMAIN ByYear(ds)

Min(S) == CHOOSE x \in S : \A y \in S : x <= y

\* Array.from(allYears).sort((a, b) => a - b)
RECURSIVE SortAsc(_)
SortAsc(S) == IF S = {} THEN <<>> ELSE <<Min(S)>> \o SortAsc(S \ {Min(S)})

\* one element put into a list sorted by year, after its equals
RECURSIVE InsertByYear(_, _)
InsertByYear(r, sorted) ==
    IF sorted = <<>> THEN <<r>>
    ELSE IF r.year < Head(sorted).year THEN <<r>> \o sorted
    ELSE <<Head(sorted)>> \o InsertByYear(r, Tail(sorted))

\* yearlyDividends.sort((a, b) => a.year - b.year)
RECURSIVE SortByYear(_)
SortByYear(rs) ==
    IF rs = <<>> THEN <<>>
    ELSE InsertByYear(rs[Len(rs)], SortByYear(SubSeq(rs, 1, Len(rs) - 1)))

\* the record pushed for one year; a missing price is Null
YearlyRecord(year, byYear, firstP, lastP) ==
    LET total == IF year \in DOMAIN byYear THEN byYear[year] ELSE 0
        yearStartPrice == IF year \in DOMAIN firstP THEN Some(firstP[year]) ELSE Null
        yearEndPrice == IF year \in DOMAIN lastP THEN Some(lastP[year]) ELSE Null
        endOk == yearEndPrice # Null /\ Truthy(yearEndPrice[1])
        startOk == yearStartPrice # Null /\ Truthy(yearStartPrice[1])
        dividendYieldPercent ==
            IF endOk /\ yearEndPrice[1] > 0
            THEN RoundDiv(10000 * total, yearEndPrice[1])
            ELSE 0
        growthRatePercent ==
            IF startOk /\ yearStartPrice[1] > 0 /\ endOk
            THEN RoundDiv(10000 * (yearEndPrice[1] - yearStartPrice[1]),
                          yearStartPrice[1])
            ELSE 0
    IN  [year |-> year,
         totalDividend |-> Round2(total),
         dividendYieldPercent |-> dividendYieldPercent,
         growthRatePercent |-> growthRatePercent,
         yearStartPrice |-> Round2(IF yearStartPrice = Null THEN 0 ELSE yearStartPrice[1]),
         yearEndPrice |-> Round2(IF yearEndPrice = Null THEN 0 ELSE yearEndPrice[1])]

YearlyDividends(rows, ds) ==
    LET years == SortAsc(AllYears(rows, ds))
        byYear == ByYear(ds)
        firstP == FirstPriceByYear(rows)
        lastP == LastPriceByYear(rows)
    IN  SortByYear([i \in 1..Len(years) |->
                       YearlyRecord(years[i], byYear, firstP, lastP)])

\* days from 0001-01-01 to the date: new Date(date).getTime() in days
DayNumber(date) ==
    LET y == date[1] - 1 IN
    365 * y + (y \div 4) - (y \div 100) + (y \div 400) + date[2]

\* (endDate - startDate) in days; years is this over 365.25
SpanDays(rows) == DayNumber(rows[Len(rows)].date) - DayNumber(rows[1].date)

\* Math.round(years * 100) / 100, in hundredths of a year
YearsRounded(rows) == RoundDiv(400 * SpanDays(rows), 1461)

\* a percentage known exactly (value in hundredths of a percent), or one
\* not computed here, of which value keeps the sign only
Exactly(v) == [exact |-> TRUE, value |-> v]
Inexact(sign) == [exact |-> FALSE, value |-> sign]

Sign(x) == IF x > 0 THEN 1 ELSE IF x < 0 THEN -1 ELSE 0

\* Math.round(((endPrice / startPrice) ** (1 / years) - 1) * 10000) / 100
\* for years > 0, startPrice > 0 and endPrice >= 0: a power of 1 is 1 and
\* a positive power of 0 is 0; any other root is left uncomputed
PowerGrowth(startPrice, endPrice) ==
    IF endPrice = startPrice THEN Exactly(0)
    ELSE IF endPrice = 0 THEN Exactly(-10000)
    ELSE Inexact(Sign(endPrice - startPrice))

\* a plausible slip: the startPrice > 0 test left out
CagrPercent_NoPriceGuard(rows) ==
    LET startPrice == rows[1].close
        endPrice == rows[Len(rows)].close
    IN  IF SpanDays(rows) > 0
        THEN (IF startPrice = 0 THEN Inexact(1)
              ELSE PowerGrowth(startPrice, endPrice))
        ELSE Exactly(0)

CagrPercent(rows) ==
    LET startPrice == rows[1].close
        endPrice == rows[Len(rows)].close
    IN  IF SpanDays(rows) > 0 /\ startPrice > 0
        THEN PowerGrowth(startPrice, endPrice)
        ELSE Exactly(0)

\* the body of the 200 answer with the analysis
Result(code, rows, ds) ==
    LET yearlyDividends == YearlyDividends(rows, ds) IN
    [symbol |-> code,
     startDate |-> rows[1].date,
     endDate |-> rows[Len(rows)].date,
     startPrice |-> Round2(rows[1].close),
     endPrice |-> Round2(rows[Len(rows)].close),
     years |-> YearsRounded(rows),
     cagrPercent |-> CagrPercent(rows),
     yearlyDividends |-> yearlyDividends,
     hasDividends |-> Len(yearlyDividends) > 0]

\* ------------------------------------------------- dividend answers -----
Failures == {"throw", "notok", "badbody"}

DatacenterOutcomes ==
    {[kind |-> k, rows |-> <<>>] : k \in Failures}
    \cup {[kind |-> "ok", rows |-> r] : r \in SeqsUpTo(RawRows, MaxRows)}

\* fetch and res.json() are not guarded; only a non-successful status is
fetchDividend(outcome) ==
    IF outcome.kind = "throw" THEN Thrown("network error")
    ELSE IF outcome.kind = "notok" THEN Returned(<<>>)
    ELSE IF outcome.kind = "badbody" THEN Thrown("invalid json")
    ELSE Returned(ParseDatacenter(outcome.rows))

\* an answer with the fhyx and the sgbh list, MaxRows rows in all
F10Jsons ==
    UNION {{[fhyx |-> f, sgbh |-> g] :
               g \in SeqsUpTo(RawRows, MaxRows - Len(f))} :
           f \in SeqsUpTo(FhyxRows, MaxRows)}

NoJson == [fhyx |-> <<>>, sgbh |-> <<>>]

F10Outcomes ==
    {[kind |-> k, json |-> NoJson] : k \in Failures}
    \cup {[kind |-> "ok", json |-> j] : j \in F10Jsons}

fetchDividendF10(outcome) ==
    IF outcome.kind = "throw" THEN Thrown("network error")
    ELSE IF outcome.kind = "notok" THEN Returned(<<>>)
    ELSE IF outcome.kind = "badbody" THEN Thrown("invalid json")
    ELSE Returned(ParseF10(outcome.json))

QuoteOutcomes ==
    {[kind |-> k, rows |-> <<>>] : k \in Failures}
    \cup {[kind |-> "ok", rows |-> r] : r \in SeqsUpTo(RawRows, MaxRows)}

\* one turn of the loop over urls: try/catch and `continue` absorb everything
QuoteUrlResult(outcome) ==
    IF outcome.kind = "ok" THEN ParseQuote(outcome.rows) ELSE <<>>

\* what the three patterns match in the page, MaxRows matches in all
PageHtmls ==
    UNION {UNION {{[rows1 |-> a, rows2 |-> b, rows3 |-> c] :
                      c \in SeqsUpTo(PageRows, MaxRows - Len(a) - Len(b))} :
                  b \in SeqsUpTo(PageRows, MaxRows - Len(a))} :
           a \in SeqsUpTo(PageRows, MaxRows)}

NoHtml == [rows1 |-> <<>>, rows2 |-> <<>>, rows3 |-> <<>>]

PageOutcomes ==
    {[kind |-> k, html |-> NoHtml] : k \in {"throw", "notok"}}
    \cup {[kind |-> "ok", html |-> h] : h \in PageHtmls}

fetchFundDividendFromPage(outcome) ==
    IF outcome.kind = "throw" THEN Thrown("network error")
    ELSE IF outcome.kind = "notok" THEN Returned(<<>>)
    ELSE Returned(ParsePage(outcome.html))

\* ------------------------------------------------------- the request ----
VARIABLES
    pc,            \* where the handler stands: idle, an awaited call, done
    query,         \* the symbol query parameter as received (Null: absent)
    symbol,        \* the trimmed symbol
    sec,           \* toSecId(symbol)
    list,          \* kline.list
    dividendList,  \* the dividend events used
    calls,         \* the outbound calls issued, in order
    klineOutcome,  \* what the price call met ("" while unanswered)
    yields,        \* the events each answered dividend call returned, in order
    status,        \* HTTP status of the response, 0 while there is none
    body,          \* JSON body of the response
    simPc,         \* where the page's simulation stands: off, start, loop, done
    result,        \* the page's result state
    principalInput,\* the principal field as typed
    reinvest,      \* the reinvest switch
    rowIndex,      \* i of the simulation loop
    shares,        \* shares held
    totalCashReceived, \* dividends taken as cash
    simulation     \* what the simulation returned

simVars == <<simPc, result, principalInput, reinvest, rowIndex, shares,
             totalCashReceived, simulation>>

reqVars == <<pc, query, symbol, sec, list, dividendList, calls, klineOutcome,
             yields, status, body>>

vars == <<reqVars, simVars>>

NoBody == [f \in {} |-> f]

MsgMissing == "please provide a stock code"
MsgUnknown == "unrecognised stock code"
MsgNoKline == "no kline data, check the stock code"

\* `获取数据失败：${message}`
WrapError(message) == <<"fetch failed: ", message>>

\* the query strings a client may send
RequestSymbols ==
    {<<>>,
     <<" ", "\t">>,
     <<"6", "0", "0", "5", "1", "9">>,
     <<" ", "0", "0", "0", "0", "0", "1", " ">>,
     <<"5", "1", " ", "0", "3", "0", "0">>,
     <<"1", "5", "9", "9", "1", "5">>,
     <<"2", "0", "0", "0", "0", "1">>,
     <<"1", "2", "3", "4", "5">>,
     <<"a", "a", "a", "1", "2", "3">>}

QueryParams == {Null} \cup {Some(s) : s \in RequestSymbols}

\* a rational number n/d as <<n, d>>, d > 0, in lowest terms
Zero == <<0, 1>>

\* useState(null): no result yet; useMemo's null
NoResult == NoBody
NoSimulation == NoBody

\* the page as first rendered, its simulation not under study
SimulationOff ==
    /\ simPc = "off"
    /\ result = NoResult
    /\ principalInput = "100000"
    /\ reinvest = FALSE
    /\ rowIndex = 0
    /\ shares = Zero
    /\ totalCashReceived = Zero
    /\ simulation = NoSimulation

Init ==
    /\ pc = "idle"
    /\ query = Null
    /\ symbol = <<>>
    /\ sec = Null
    /\ list = <<>>
    /\ dividendList = <<>>
    /\ calls = <<>>
    /\ klineOutcome = ""
    /\ yields = <<>>
    /\ status = 0
    /\ body = NoBody
    /\ SimulationOff

\* NextResponse.json(b, { status: st })
Respond(st, b) ==
    /\ status' = st
    /\ body' = b
    /\ pc' = "done"

\* await of the next outbound call
Call(name) ==
    /\ pc' = name
    /\ calls' = Append(calls, name)
    /\ UNCHANGED <<status, body>>

\* the catch block of GET
Catch(message) ==
    /\ Respond(500, [symbol |-> symbol, error |-> WrapError(message)])
    /\ UNCHANGED <<calls, dividendList, yields>>

\* request.nextUrl.searchParams.get("symbol")?.trim() ?? ""
TrimmedSymbol(param) == IF param = Null THEN <<>> ELSE Trim(param[1])

\* GET up to its first await
GET(param) ==
    /\ pc = "idle"
    /\ query' = param
    /\ symbol' = TrimmedSymbol(param)
    /\ LET sym == TrimmedSymbol(param) IN
       IF sym = <<>>
       THEN /\ Respond(400, [error |-> MsgMissing])
            /\ UNCHANGED <<sec, calls>>
       ELSE IF toSecId(sym) = Null
       THEN /\ Respond(400, [symbol |-> sym, error |-> MsgUnknown])
            /\ UNCHANGED <<sec, calls>>
       ELSE /\ sec' = toSecId(sym)
            /\ Call("kline")
    /\ UNCHANGED <<list, dividendList, klineOutcome, yields, simVars>>

securityCode == SecurityCode(sec[1].secid, symbol)

\* a plausible slip: the ETF sources tried whatever the first two gave
TryEtfSources_Always(ds) == isLikelyEtfOrFund(securityCode)

\* dividendList.length === 0 && isLikelyEtfOrFund(securityCode)
TryEtfSources(ds) == Len(ds) = 0 /\ isLikelyEtfOrFund(securityCode)

\* from byYear to the 200 answer
Finish(ds) ==
    /\ dividendList' = ds
    /\ Respond(200, Result(securityCode, list, ds))
    /\ UNCHANGED calls

\* a plausible slip: the ETF sources contacted with events in hand
AfterStockSources_NoShortCut(ds) == dividendList' = ds /\ Call("quote1")

\* after sources 1 and 2: the ETF sources or the answer
AfterStockSources(ds) ==
    IF TryEtfSources(ds)
    THEN dividendList' = ds /\ Call("quote1")
    ELSE Finish(ds)

KlineKind(outcome) ==
    IF outcome.kind = "ok" /\ Len(outcome.klines) = 0 THEN "empty" ELSE outcome.kind

\* fetchKline answers; GET runs on to the data-center call
KlineReturn(outcome) ==
    /\ pc = "kline"
    /\ klineOutcome' = KlineKind(outcome)
    /\ LET kline == fetchKline(outcome) IN
       IF kline.threw
       THEN Catch(kline.message) /\ UNCHANGED list
       ELSE IF Len(kline.value) = 0
       THEN /\ Respond(200, [symbol |-> symbol, error |-> MsgNoKline])
            /\ UNCHANGED <<list, calls, dividendList, yields>>
       ELSE /\ list' = kline.value
            /\ Call("datacenter")
            /\ UNCHANGED <<dividendList, yields>>
    /\ UNCHANGED <<query, symbol, sec, simVars>>

Yield(source, events) ==
    yields' = Append(yields, [source |-> source, events |-> events])

\* fetchDividend answers
DatacenterReturn(outcome) ==
    /\ pc = "datacenter"
    /\ LET fromDatacenter == fetchDividend(outcome) IN
       IF fromDatacenter.threw
       THEN Catch(fromDatacenter.message)
       ELSE /\ Yield("datacenter", fromDatacenter.value)
            /\ IF Len(fromDatacenter.value) > 0
               THEN AfterStockSources(fromDatacenter.value)
               ELSE Call("f10") /\ UNCHANGED dividendList
    /\ UNCHANGED <<query, symbol, sec, list, klineOutcome, simVars>>

\* fetchDividendF10 answers
F10Return(outcome) ==
    /\ pc = "f10"
    /\ LET fromF10 == fetchDividendF10(outcome) IN
       IF fromF10.threw
       THEN Catch(fromF10.message)
       ELSE /\ Yield("f10", fromF10.value)
            /\ AfterStockSources(fromF10.value)
    /\ UNCHANGED <<query, symbol, sec, list, klineOutcome, simVars>>

\* the first url of fetchEtfDividendFromQuote answers
Quote1Return(outcome) ==
    /\ pc = "quote1"
    /\ LET fromUrl == QuoteUrlResult(outcome) IN
       /\ Yield("quote", fromUrl)
       /\ IF Len(fromUrl) > 0
          THEN Finish(fromUrl)
          ELSE Call("quote2") /\ UNCHANGED dividendList
    /\ UNCHANGED <<query, symbol, sec, list, klineOutcome, simVars>>

\* the second url answers; with no event the fund page is fetched
Quote2Return(outcome) ==
    /\ pc = "quote2"
    /\ LET fromUrl == QuoteUrlResult(outcome) IN
       /\ Yield("quote", fromUrl)
       /\ IF Len(fromUrl) > 0
          THEN Finish(fromUrl)
          ELSE Call("page") /\ UNCHANGED dividendList
    /\ UNCHANGED <<query, symbol, sec, list, klineOutcome, simVars>>

\* fetchFundDividendFromPage answers
PageReturn(outcome) ==
    /\ pc = "page"
    /\ LET fromFundPage == fetchFundDividendFromPage(outcome) IN
       IF fromFundPage.threw
       THEN Catch(fromFundPage.message)
       ELSE /\ Yield("page", fromFundPage.value)
            /\ Finish(fromFundPage.value)
    /\ UNCHANGED <<query, symbol, sec, list, klineOutcome, simVars>>

Next ==
    \/ \E param \in QueryParams : GET(param)
    \/ \E outcome \in KlineOutcomes : KlineReturn(outcome)
    \/ \E outcome \in DatacenterOutcomes : DatacenterReturn(outcome)
    \/ \E outcome \in F10Outcomes : F10Return(outcome)
    \/ \E outcome \in QuoteOutcomes : Quote1Return(outcome)
    \/ \E outcome \in QuoteOutcomes : Quote2Return(outcome)
    \/ \E outcome \in PageOutcomes : PageReturn(outcome)

Spec == Init /\ [][Next]_vars

\* ------------------------------------------- the resolver on its own ----
\* two leading characters of any kind, then a tail of "0", " " and "a"
TailAlphabet == {"0", " ", "a"}

ResolverInputs ==
    {p \o t : p \in SeqsUpTo(Alphabet, 2), t \in SeqsUpTo(TailAlphabet, MaxTail)}

InitResolver ==
    /\ pc = "resolve"
    /\ query = Null
    /\ symbol \in ResolverInputs
    /\ sec = Null
    /\ list = <<>>
    /\ dividendList = <<>>
    /\ calls = <<>>
    /\ klineOutcome = ""
    /\ yields = <<>>
    /\ status = 0
    /\ body = NoBody
    /\ SimulationOff

Resolve ==
    /\ pc = "resolve"
    /\ sec' = toSecId(symbol)
    /\ pc' = "resolved"
    /\ UNCHANGED <<query, symbol, list, dividendList, calls, klineOutcome,
                   yields, status, body, simVars>>

NextResolver == Resolve

SpecResolver == InitResolver /\ [][NextResolver]_vars

\* ------------------------------------------- the return simulator ------
\* JS numbers of the simulation are exact rationals <<n, d>> in yuan (or
\* shares, or percent); the record fields it reads are in hundredths.
Abs(x) == IF x < 0 THEN -x ELSE x

RECURSIVE GCD(_, _)
GCD(a, b) == IF b = 0 THEN a ELSE GCD(b, a % b)

Ratio(n, d) == LET g == GCD(Abs(n), d) IN <<n \div g, d \div g>>
Whole(n) == <<n, 1>>
Yuan(hundredths) == Ratio(hundredths, 100)

\* a quotient by 0 is NaN or an infinity; the simulation tests its
\* divisors > 0 before it divides
NotFinite == <<NaN, 1>>

RAdd(a, b) ==
    LET l == (a[2] \div GCD(a[2], b[2])) * b[2]
    IN  Ratio(a[1] * (l \div a[2]) + b[1] * (l \div b[2]), l)
RSub(a, b) == RAdd(a, <<-b[1], b[2]>>)
RMul(a, b) ==
    LET g1 == GCD(Abs(a[1]), b[2])
        g2 == GCD(Abs(b[1]), a[2])
    IN  Ratio((a[1] \div g1) * (b[1] \div g2), (a[2] \div g2) * (b[2] \div g1))
RDiv(a, b) ==
    IF b[1] = 0 THEN NotFinite
    ELSE IF b[1] > 0 THEN RMul(a, <<b[2], b[1]>>)
    ELSE RMul(a, <<-b[2], -b[1]>>)

\* what may stand in the principal field, and Number() of it
PrincipalInputs == {"", "abc", "-5", "100000"}
NumberOf(input) ==
    CASE input = "" -> 0
      [] input = "abc" -> NaN
      [] input = "-5" -> -5
      [] input = "100000" -> 100000

\* principalInput === "" ? 0 : Number(principalInput) || 0
Principal(input) ==
    IF input = "" THEN 0
    ELSE IF Truthy(NumberOf(input)) THEN NumberOf(input) ELSE 0

\* yearly records as the simulation reads them, years ascending
SimRecords ==
    [totalDividend : {0, 50}, yearStartPrice : {0, 1000}, yearEndPrice : {0, 1200}]
SimRows(n) ==
    {[k \in 1..n |-> [year |-> 2020 + k,
                      totalDividend |-> f[k].totalDividend,
                      yearStartPrice |-> f[k].yearStartPrice,
                      yearEndPrice |-> f[k].yearEndPrice]] :
        f \in [1..n -> SimRecords]}

\* what setResult may have stored: nothing, a failed answer, an analysis
ErrorResult == [symbol |-> "600519", error |-> "failed"]
Analyses ==
    UNION {{[yearlyDividends |-> rows,
             endPrice |-> endPrice,
             endDate |-> <<2020 + n, 200>>] :
                rows \in SimRows(n), endPrice \in {0, 1200}} : n \in 1..MaxSimRows}
Results == {NoResult, ErrorResult} \cup Analyses

\* !result || result.error || !result.yearlyDividends.length
Unusable(r) ==
    \/ r = NoResult
    \/ "error" \in DOMAIN r
    \/ Len(r.yearlyDividends) = 0

\* rows.findIndex((r) => r.yearStartPrice > 0), 0 for none
StartIndex(rows) ==
    LET hits == {k \in 1..Len(rows) : rows[k].yearStartPrice > 0}
    IN  IF hits = {} THEN 0 ELSE CHOOSE k \in hits : \A h \in hits : k <= h

\* a plausible slip: the principal test left out
CannotSimulate_PriceOnly(principal, buyPrice) == buyPrice <= 0

CannotSimulate(principal, buyPrice) == principal <= 0 \/ buyPrice <= 0

\* a plausible slip: the switch not consulted
Reinvests_Always(flag, row) == row.yearEndPrice > 0

Reinvests(flag, row) == flag /\ row.yearEndPrice > 0

\* a plausible slip: the cash taken is left out of the return
TotalReturn_NoCash(endValue, cash, principal) == RSub(endValue, Whole(principal))

TotalReturn(endValue, cash, principal) ==
    RSub(RAdd(endValue, cash), Whole(principal))

\* (totalTerminal / principal) ** (1 / holdingYears) - 1, in percent, for
\* principal > 0 and holdingYears > 0; computed for the powers of 1 and 0
TerminalGrowth(principal, totalTerminal) ==
    IF totalTerminal = Whole(principal) THEN Exactly(0)
    ELSE IF totalTerminal[1] = 0 THEN Exactly(-100)
    ELSE Inexact(Sign(RSub(totalTerminal, Whole(principal))[1]))

\* endDate minus January 1 of the entry year, in days
HoldingDays(r) ==
    DayNumber(r.endDate)
        - DayNumber(<<r.yearlyDividends[StartIndex(r.yearlyDividends)].year, 1>>)

CannotSimulateResult == [canSimulate |-> FALSE]

InitSimulator ==
    /\ pc = "idle"
    /\ query = Null
    /\ symbol = <<>>
    /\ sec = Null
    /\ list = <<>>
    /\ dividendList = <<>>
    /\ calls = <<>>
    /\ klineOutcome = ""
    /\ yields = <<>>
    /\ status = 0
    /\ body = NoBody
    /\ simPc = "start"
    /\ result \in Results
    /\ principalInput \in PrincipalInputs
    /\ reinvest \in BOOLEAN
    /\ rowIndex = 0
    /\ shares = Zero
    /\ totalCashReceived = Zero
    /\ simulation = NoSimulation

SimReturn(value) ==
    /\ simulation' = value
    /\ simPc' = "done"
    /\ UNCHANGED <<rowIndex, shares, totalCashReceived>>

\* the useMemo callback up to its loop
SimStart ==
    /\ simPc = "start"
    /\ IF Unusable(result) THEN SimReturn(NoSimulation)
       ELSE LET rows == result.yearlyDividends
                startIndex == StartIndex(rows)
                principal == Principal(principalInput)
            IN  IF startIndex = 0 THEN SimReturn(CannotSimulateResult)
                ELSE IF CannotSimulate(principal, rows[startIndex].yearStartPrice)
                THEN SimReturn(CannotSimulateResult)
                ELSE /\ shares' = RDiv(Whole(principal),
                                       Yuan(rows[startIndex].yearStartPrice))
                     /\ totalCashReceived' = Zero
                     /\ rowIndex' = startIndex
                     /\ simPc' = "loop"
                     /\ UNCHANGED simulation
    /\ UNCHANGED <<result, principalInput, reinvest, reqVars>>

\* one pass of the loop over rows[i]
SimStep ==
    /\ simPc = "loop"
    /\ rowIndex <= Len(result.yearlyDividends)
    /\ LET row == result.yearlyDividends[rowIndex]
           cash == RMul(shares, Yuan(row.totalDividend))
       IN  IF Reinvests(reinvest, row)
           THEN /\ shares' = RAdd(shares, RDiv(cash, Yuan(row.yearEndPrice)))
                /\ UNCHANGED totalCashReceived
           ELSE /\ totalCashReceived' = RAdd(totalCashReceived, cash)
                /\ UNCHANGED shares
    /\ rowIndex' = rowIndex + 1
    /\ UNCHANGED <<simPc, simulation, result, principalInput, reinvest, reqVars>>

\* after the loop: the figures returned
SimFinish ==
    /\ simPc = "loop"
    /\ rowIndex > Len(result.yearlyDividends)
    /\ LET principal == Principal(principalInput)
           endValue == RMul(shares, Yuan(result.endPrice))
           totalReturn == TotalReturn(endValue, totalCashReceived, principal)
           totalTerminal == RAdd(endValue, totalCashReceived)
       IN  SimReturn([canSimulate |-> TRUE,
                      endValue |-> endValue,
                      totalCashReceived |-> totalCashReceived,
                      totalReturn |-> totalReturn,
                      totalReturnPercent |->
                          RMul(RDiv(totalReturn, Whole(principal)), Whole(100)),
                      cagrPercent |->
                          IF HoldingDays(result) > 0 /\ principal > 0
                          THEN TerminalGrowth(principal, totalTerminal)
                          ELSE Exactly(0)])
    /\ UNCHANGED <<result, principalInput, reinvest, reqVars>>

NextSimulator ==
    \/ SimStart
    \/ SimStep
    \/ SimFinish

SpecSimulator == InitSimulator /\ [][NextSimulator]_vars

\* ================================================================ claims
Range(f) == {f[i] : i \in DOMAIN f}

\* the text with its whitespace characters left out
RECURSIVE NoSpace(_)
NoSpace(s) ==
    IF s = <<>> THEN <<>>
    ELSE IF Head(s) = " " \/ Head(s) = "\t" THEN NoSpace(Tail(s))
    ELSE <<Head(s)>> \o NoSpace(Tail(s))

C1_Code == NoSpace(symbol)
C1_IsCode == Len(C1_Code) = 6 /\ \A i \in 1..6 : C1_Code[i] \in Digits
C1_Sh ==
    /\ C1_IsCode
    /\ \/ C1_Code[1] \in {"6", "5", "9"}
       \/ <<C1_Code[1], C1_Code[2]>> \in {<<"5", "1">>, <<"5", "6">>, <<"5", "8">>}
C1_Sz ==
    /\ C1_IsCode
    /\ ~C1_Sh
    /\ \/ C1_Code[1] \in {"0", "3"}
       \/ <<C1_Code[1], C1_Code[2]>> \in {<<"1", "5">>, <<"1", "6">>}

\* C1: toSecId removes all whitespace; six digits starting 6, 5, 9 (or 51,
\* 56, 58) give "1."+code and sh; else six digits starting 0, 3 or 15, 16
\* give "0."+code and sz; anything else (not six digits, or six digits
\* starting 2, 4, 7, 8, or 1 but not 15/16) gives null.
C1_ToSecIdTable ==
    pc = "resolved" =>
        /\ C1_Sh => sec = <<[secid |-> <<"1", ".">> \o C1_Code, market |-> "sh"]>>
        /\ C1_Sz => sec = <<[secid |-> <<"0", ".">> \o C1_Code, market |-> "sz"]>>
        /\ (~C1_Sh /\ ~C1_Sz) => sec = Null
        /\ ~C1_IsCode => sec = Null
        /\ (C1_IsCode /\ C1_Code[1] \in {"2", "4", "7", "8"}) => sec = Null
        /\ (C1_IsCode /\ C1_Code[1] = "1" /\ C1_Code[2] \notin {"5", "6"})
              => sec = Null

\* C1 witness: an input with whitespace inside resolved by the 15/16 rule
C1_Witness ==
    /\ pc = "resolved"
    /\ Len(symbol) > 6
    /\ symbol[1] = "1"
    /\ sec # Null
    /\ sec[1].market = "sz"

C2_Missing == query = Null \/ \A i \in 1..Len(query[1]) : query[1][i] \in Whitespace
C2_Unresolvable == ~C2_Missing /\ toSecId(query[1]) = Null

\* C2 as stated: 400 with a body carrying both symbol and error whenever the
\* symbol parameter is missing/empty after trimming or toSecId rejects it,
\* and 400 in no other case.
C2_BadRequestHasSymbolAndError ==
    /\ (pc = "done" /\ (C2_Missing \/ C2_Unresolvable))
          => (status = 400 /\ {"symbol", "error"} \subseteq DOMAIN body)
    /\ status = 400 => (pc = "done" /\ (C2_Missing \/ C2_Unresolvable))

\* C2 amended: 400 exactly in those two cases; the body carries error in
\* both, and symbol (the trimmed parameter) only when toSecId rejected a
\* non-empty symbol: for a missing or blank parameter the body is {error}.
C2_BadRequest ==
    /\ (pc = "done" /\ C2_Missing)
          => (status = 400 /\ DOMAIN body = {"error"})
    /\ (pc = "done" /\ C2_Unresolvable)
          => /\ status = 400
             /\ DOMAIN body = {"symbol", "error"}
             /\ body.symbol # <<>>
             /\ body.symbol[1] \notin Whitespace
             /\ body.symbol[Len(body.symbol)] \notin Whitespace
             /\ NoSpace(body.symbol) = NoSpace(query[1])
    /\ status = 400 => (pc = "done" /\ (C2_Missing \/ C2_Unresolvable))

\* C2 witness: a parameter of whitespace only answered 400
C2_Witness ==
    /\ status = 400
    /\ query # Null
    /\ query[1] # <<>>
    /\ DOMAIN body = {"error"}

\* C3 as stated: an empty bar list from a successful price answer ends the
\* request with status 200 and a body carrying an error field.
C3_NoDataIs200 ==
    (pc = "done" /\ klineOutcome = "empty")
        => (status = 200 /\ "error" \in DOMAIN body)

\* C4: a price fetch that throws or gets a non-successful status ends the
\* request with 500 and {symbol, error}, error wrapping the failure message;
\* no yearly record is computed and the one price call is the only call.
C4_PriceFailureIs500 ==
    klineOutcome \in {"throw", "notok"} =>
        /\ pc = "done"
        /\ status = 500
        /\ DOMAIN body = {"symbol", "error"}
        /\ body.symbol = symbol
        /\ Len(body.error) = 2
        /\ body.error[2] = (IF klineOutcome = "throw"
                            THEN "network error"
                            ELSE "kline request failed: status")
        /\ calls = <<"kline">>
        /\ yields = <<>>
        /\ dividendList = <<>>

\* C4 witness: the price source answered with a non-successful status
C4_Witness == pc = "done" /\ klineOutcome = "notok" /\ status = 500

\* C5 as stated: whatever fails inside a dividend source, once the price
\* fetch succeeded the request ends with status 200.
C5_DividendFailureAbsorbed ==
    (pc = "done" /\ Len(calls) >= 2) => status = 200

C6_Order == <<"datacenter", "f10", "quote", "quote", "page">>

\* C6: the events used are those of exactly one source, the first in the
\* order data-center, F10, quote API, fund page that yielded an event; no
\* call follows a yield and yields are never combined.
C6_SingleSource ==
    /\ Len(yields) <= Len(C6_Order)
    /\ \A i \in 1..Len(yields) : yields[i].source = C6_Order[i]
    /\ \A i \in 1..Len(yields) - 1 : yields[i].events = <<>>
    /\ (yields # <<>> /\ yields[Len(yields)].events # <<>>) => pc = "done"
    /\ dividendList # <<>> => dividendList = yields[Len(yields)].events
    /\ (status = 200 /\ "yearlyDividends" \in DOMAIN body)
          => dividendList = yields[Len(yields)].events

\* C6 witness: the fund page, tried last, is the source that yielded
C6_Witness ==
    /\ status = 200
    /\ Len(yields) = 5
    /\ dividendList # <<>>

C7_EtfPrefix ==
    /\ Len(NoSpace(symbol)) = 6
    /\ <<NoSpace(symbol)[1], NoSpace(symbol)[2]>> \in
          {<<"5", "1">>, <<"5", "6">>, <<"5", "8">>, <<"1", "5">>, <<"1", "6">>}

\* C7: the ETF sources are called only for a code starting 51, 56, 58, 15
\* or 16 and only after the data-center and the F10 source both yielded
\* nothing; the quote API comes first and the fund page only after the
\* quote API yielded nothing.
C7_EtfSourcesGuarded ==
    /\ ~C7_EtfPrefix => Range(calls) \cap {"quote1", "quote2", "page"} = {}
    /\ "quote1" \in Range(calls) =>
          /\ C7_EtfPrefix
          /\ SubSeq(calls, 1, 4) = <<"kline", "datacenter", "f10", "quote1">>
          /\ Len(yields) >= 2
          /\ yields[1] = [source |-> "datacenter", events |-> <<>>]
          /\ yields[2] = [source |-> "f10", events |-> <<>>]
    /\ "quote2" \in Range(calls) =>
          /\ SubSeq(calls, 1, 5)
                = <<"kline", "datacenter", "f10", "quote1", "quote2">>
          /\ yields[3] = [source |-> "quote", events |-> <<>>]
    /\ "page" \in Range(calls) =>
          /\ calls = <<"kline", "datacenter", "f10", "quote1", "quote2", "page">>
          /\ yields[4] = [source |-> "quote", events |-> <<>>]

\* C7 witness: the fund page is being fetched
C7_Witness == pc = "page" /\ C7_EtfPrefix

\* C8 as stated: with the price fetch succeeded and no dividend source
\* yielding an event, the 200 answer has hasDividends = false.
C8_NoEventsNoDividends ==
    (status = 200 /\ "hasDividends" \in DOMAIN body /\ dividendList = <<>>)
        => body.hasDividends = FALSE

C9_Years ==
    {list[i].date[1] : i \in 1..Len(list)}
    \cup {dividendList[i].year : i \in 1..Len(dividendList)}

\* C9: the yearly records of a successful answer have exactly the years of
\* the price bars and of the accepted dividend events, each once, in
\* strictly ascending order.
C9_YearAxis ==
    (status = 200 /\ "yearlyDividends" \in DOMAIN body) =>
        LET recs == body.yearlyDividends IN
        /\ {recs[i].year : i \in 1..Len(recs)} = C9_Years
        /\ \A i \in 1..Len(recs) : \A j \in 1..Len(recs) :
              i < j => recs[i].year < recs[j].year

\* C9 witness: a year with dividends only, one with both, one with bars only
C9_Witness ==
    /\ status = 200
    /\ "yearlyDividends" \in DOMAIN body
    /\ Len(body.yearlyDividends) = 3
    /\ \E i \in 1..Len(dividendList) : dividendList[i].year = 2022
    /\ \E i \in 1..Len(list) : list[i].date[1] = 2024

\* the sum of cashPerShare over the events of one year
RECURSIVE SumOfYear(_, _)
SumOfYear(ds, year) ==
    IF ds = <<>> THEN 0
    ELSE (IF Head(ds).year = year THEN Head(ds).cashPerShare ELSE 0)
         + SumOfYear(Tail(ds), year)

\* C10: totalDividend of a yearly record is the sum of cashPerShare over all
\* accepted events of that year, rounded to two decimals once, at output;
\* it is 0 for a year without events.
C10_TotalIsSum ==
    (status = 200 /\ "yearlyDividends" \in DOMAIN body) =>
        \A i \in 1..Len(body.yearlyDividends) :
            LET rec == body.yearlyDividends[i]
                sum == SumOfYear(dividendList, rec.year)
            IN  /\ 10 * rec.totalDividend - 5 <= sum
                /\ sum < 10 * rec.totalDividend + 5
                /\ (\A k \in 1..Len(dividendList) : dividendList[k].year # rec.year)
                      => rec.totalDividend = 0

\* C10 witness: two events of 0.004 in one year give 0.01, and another
\* year of the answer has no event
C10_Witness ==
    /\ status = 200
    /\ "yearlyDividends" \in DOMAIN body
    /\ Len(dividendList) = 2
    /\ dividendList[1] = dividendList[2]
    /\ dividendList[1].cashPerShare = 4
    /\ \E i \in 1..Len(body.yearlyDividends) :
          /\ body.yearlyDividends[i].year = dividendList[1].year
          /\ body.yearlyDividends[i].totalDividend = 1
    /\ \E i \in 1..Len(body.yearlyDividends) :
          /\ body.yearlyDividends[i].year # dividendList[1].year
          /\ body.yearlyDividends[i].totalDividend = 0

C11_Success == status = 200 /\ "yearlyDividends" \in DOMAIN body

\* the bars of one year, by their place in the bar sequence
C11_BarsOf(year) == {i \in 1..Len(list) : list[i].date[1] = year}
C11_FirstOf(year) == CHOOSE i \in C11_BarsOf(year) : \A j \in C11_BarsOf(year) : i <= j
C11_LastOf(year) == CHOOSE i \in C11_BarsOf(year) : \A j \in C11_BarsOf(year) : j <= i

\* C11: for every year with a price bar, yearStartPrice is the close of the
\* first bar of that year and yearEndPrice the close of its last bar (both
\* as held per year, and rounded to two decimals in the record); later bars
\* of the year do not change yearStartPrice.
C11_YearPrices ==
    C11_Success =>
        \A i \in 1..Len(body.yearlyDividends) :
            LET rec == body.yearlyDividends[i] IN
            C11_BarsOf(rec.year) # {} =>
                /\ FirstPriceByYear(list)[rec.year] = list[C11_FirstOf(rec.year)].close
                /\ LastPriceByYear(list)[rec.year] = list[C11_LastOf(rec.year)].close
                /\ 10 * rec.yearStartPrice - 5 <= list[C11_FirstOf(rec.year)].close
                /\ list[C11_FirstOf(rec.year)].close < 10 * rec.yearStartPrice + 5
                /\ 10 * rec.yearEndPrice - 5 <= list[C11_LastOf(rec.year)].close
                /\ list[C11_LastOf(rec.year)].close < 10 * rec.yearEndPrice + 5

\* C11 witness: a year with two bars of different closes
C11_Witness ==
    /\ C11_Success
    /\ Len(list) = 2
    /\ list[1].date[1] = list[2].date[1]
    /\ list[1].close = 10004
    /\ list[2].close = 12000
    /\ body.yearlyDividends[1].yearStartPrice = 1000
    /\ body.yearlyDividends[1].yearEndPrice = 1200

\* C12 as stated: growthRatePercent is (end - start) / start * 100 whenever
\* the year's start price exists and is > 0, whatever the end price (0
\* included), and 0 when the start price is missing or <= 0;
\* dividendYieldPercent is total / end * 100 when the end price exists and
\* is > 0, else 0; both from unrounded values, rounded once in the record.
C12_Percentages ==
    C11_Success =>
        \A i \in 1..Len(body.yearlyDividends) :
            LET rec == body.yearlyDividends[i]
                has == C11_BarsOf(rec.year) # {}
                start == list[C11_FirstOf(rec.year)].close
                end == list[C11_LastOf(rec.year)].close
                total == SumOfYear(dividendList, rec.year)
            IN  /\ (has /\ start > 0)
                      => rec.growthRatePercent = RoundDiv(10000 * (end - start), start)
                /\ (~has \/ start <= 0) => rec.growthRatePercent = 0
                /\ (has /\ end > 0)
                      => rec.dividendYieldPercent = RoundDiv(10000 * total, end)
                /\ (~has \/ end <= 0) => rec.dividendYieldPercent = 0

C13_Days == DayNumber(list[Len(list)].date) - DayNumber(list[1].date)

\* C13: cagrPercent is 0 whenever the span from the first to the last bar
\* date is not positive or the first close is <= 0, and 0 whenever the
\* first and the last close are equal over a positive span;
\* startPrice/endPrice/startDate/endDate are the close (rounded to two
\* decimals) and the date of the first and of the last bar.
C13_CagrZeroCases ==
    C11_Success =>
        /\ (C13_Days <= 0 \/ list[1].close <= 0)
              => body.cagrPercent = [exact |-> TRUE, value |-> 0]
        /\ (C13_Days > 0 /\ list[1].close = list[Len(list)].close)
              => body.cagrPercent = [exact |-> TRUE, value |-> 0]
        /\ body.startDate = list[1].date
        /\ body.endDate = list[Len(list)].date
        /\ 10 * body.startPrice - 5 <= list[1].close
        /\ list[1].close < 10 * body.startPrice + 5
        /\ 10 * body.endPrice - 5 <= list[Len(list)].close
        /\ list[Len(list)].close < 10 * body.endPrice + 5

\* C13 witness: equal positive closes a year apart
C13_Witness ==
    /\ C11_Success
    /\ Len(list) = 2
    /\ list[1].date = <<2023, 1>>
    /\ list[2].date = <<2024, 1>>
    /\ list[1].close = 12000
    /\ list[2].close = 12000
    /\ body.years = 100
    /\ body.cagrPercent.value = 0

\* C14 as stated: every dividend event handed to the metrics engine has
\* cashPerShare > 0 and a year strictly between 1990 and 2100.
C14_EventsPlausible ==
    \A i \in 1..Len(dividendList) :
        /\ dividendList[i].cashPerShare > 0
        /\ dividendList[i].year > 1990
        /\ dividendList[i].year < 2100

C15_Rows == result.yearlyDividends

\* the first record with a positive start price
C15_Entry ==
    CHOOSE k \in 1..Len(C15_Rows) :
        /\ C15_Rows[k].yearStartPrice > 0
        /\ \A j \in 1..(k - 1) : C15_Rows[j].yearStartPrice <= 0

C15_BoughtShares ==
    RDiv(Whole(NumberOf(principalInput)), Yuan(C15_Rows[C15_Entry].yearStartPrice))

C15_Step ==
    /\ (simPc = "start" /\ simPc' = "loop") =>
          /\ rowIndex' = C15_Entry
          /\ shares' = C15_BoughtShares
          /\ totalCashReceived' = Zero
    /\ (simPc = "loop" /\ simPc' = "loop") =>
          LET row == C15_Rows[rowIndex]
              cash == RMul(shares, Yuan(row.totalDividend))
          IN  /\ rowIndex >= C15_Entry
              /\ rowIndex' = rowIndex + 1
              /\ IF reinvest /\ row.yearEndPrice > 0
                 THEN /\ shares' = RAdd(shares, RDiv(cash, Yuan(row.yearEndPrice)))
                      /\ totalCashReceived' = totalCashReceived
                 ELSE /\ totalCashReceived' = RAdd(totalCashReceived, cash)
                      /\ shares' = shares
    /\ (simPc = "loop" /\ simPc' = "done") => rowIndex = Len(C15_Rows) + 1
    /\ simPc = "loop" => RSub(shares', shares)[1] >= 0
    /\ (simPc = "loop" /\ ~reinvest) => shares' = C15_BoughtShares

\* C15: the simulation enters at the first record with yearStartPrice > 0
\* holding principal / that price shares, skips the records before it, and
\* for each record from there to the last takes cash = shares *
\* totalDividend: with reinvest on and the record's yearEndPrice > 0 the
\* shares grow by cash / yearEndPrice and the cash received stays; otherwise
\* the cash received grows by cash and the shares stay.  Shares never
\* decrease, and with reinvest off they stay principal / buyPrice.
C15_Simulates == [][C15_Step]_vars

\* C15 witness: entry at the second record, one dividend reinvested and
\* one taken as cash for want of a year-end price
C15_Witness ==
    /\ simPc = "done"
    /\ reinvest
    /\ rowIndex = 4
    /\ shares = <<31250, 3>>
    /\ totalCashReceived = <<15625, 3>>
    /\ Len(C15_Rows) = 3
    /\ C15_Entry = 2

C16_Simulated ==
    /\ simPc = "done"
    /\ "canSimulate" \in DOMAIN simulation
    /\ simulation.canSimulate

C16_Example ==
    /\ principalInput = "100000"
    /\ ~reinvest
    /\ Len(result.yearlyDividends) = 1
    /\ result.yearlyDividends[1].yearStartPrice = 1000
    /\ result.yearlyDividends[1].totalDividend = 50
    /\ result.endPrice = 1200

\* C16: the terminal value is the final shares times the series' end price
\* plus the cash received; totalReturn is the terminal value minus the
\* principal and totalReturnPercent is totalReturn / principal * 100.
\* Principal 100000 bought at 10, one record paying 0.5, end price 12, no
\* reinvest: cash 5000, endValue 120000, totalReturn 25000, 25 percent.
C16_Terminal ==
    C16_Simulated =>
        LET principal == Whole(NumberOf(principalInput))
            terminal == RAdd(RMul(shares, Yuan(result.endPrice)), totalCashReceived)
        IN  /\ simulation.endValue = RMul(shares, Yuan(result.endPrice))
            /\ simulation.totalCashReceived = totalCashReceived
            /\ RAdd(simulation.endValue, simulation.totalCashReceived) = terminal
            /\ simulation.totalReturn = RSub(terminal, principal)
            /\ RDiv(simulation.totalReturnPercent, Whole(100))
                  = RDiv(simulation.totalReturn, principal)
            /\ C16_Example =>
                  /\ shares = Whole(10000)
                  /\ simulation.totalCashReceived = Whole(5000)
                  /\ simulation.endValue = Whole(120000)
                  /\ simulation.totalReturn = Whole(25000)
                  /\ simulation.totalReturnPercent = Whole(25)

\* C16 witness: the example, simulated
C16_Witness ==
    /\ C16_Simulated
    /\ C16_Example
    /\ simulation.totalReturn = <<25000, 1>>

C17_HasRecords ==
    /\ result # NoResult
    /\ "error" \notin DOMAIN result
    /\ Len(result.yearlyDividends) > 0

C17_PrincipalPositive ==
    /\ principalInput # ""
    /\ NumberOf(principalInput) # NaN
    /\ NumberOf(principalInput) > 0

C17_CanEnter ==
    \E k \in 1..Len(result.yearlyDividends) :
        result.yearlyDividends[k].yearStartPrice > 0

\* C17: over a result's yearly records the simulation yields
\* canSimulate = false, and no figures, whenever the principal is <= 0 (an
\* empty or non-numeric field included) or no record has yearStartPrice > 0;
\* it yields canSimulate = true only when the principal is > 0 and such a
\* record exists.
C17_Signal ==
    (simPc = "done" /\ C17_HasRecords) =>
        /\ "canSimulate" \in DOMAIN simulation
        /\ simulation.canSimulate <=> (C17_PrincipalPositive /\ C17_CanEnter)
        /\ ~(C17_PrincipalPositive /\ C17_CanEnter)
              => simulation = [canSimulate |-> FALSE]

\* C17 witness: a non-numeric principal over records that could be entered
C17_Witness ==
    /\ simPc = "done"
    /\ C17_HasRecords
    /\ principalInput = "abc"
    /\ C17_CanEnter
    /\ simulation = [canSimulate |-> FALSE]

C18_Sequence == <<"kline", "datacenter", "f10", "quote1", "quote2", "page">>
C18_Place(name) == CHOOSE k \in 1..Len(C18_Sequence) : C18_Sequence[k] = name
C18_Source(name) == IF name \in {"quote1", "quote2"} THEN "quote" ELSE name
C18_DividendCalls == {k \in 1..Len(calls) : calls[k] # "kline"}
C18_SourcesTried == {C18_Source(calls[k]) : k \in C18_DividendCalls}

\* what the call sequence of a request satisfies at every moment, but for
\* the number of dividend calls
C18_Chain ==
    /\ status = 400 => calls = <<>>
    /\ calls # <<>> => calls[1] = "kline"
    /\ \A a, b \in 1..Len(calls) :
          a < b => C18_Place(calls[a]) < C18_Place(calls[b])
    /\ C18_DividendCalls # {} => klineOutcome = "ok" /\ list # <<>>
    /\ pc \notin {"idle", "done"} => calls # <<>> /\ calls[Len(calls)] = pc
    /\ \A k \in 1..(Len(yields) - 1) : yields[k].events = <<>>
    /\ (yields # <<>> /\ yields[Len(yields)].events # <<>>) => pc = "done"
    /\ pc = "done" <=> status # 0

\* C18 as stated: no outbound call on a 400; otherwise the price call
\* first and dividend sources only after it returned bars; then at most
\* four dividend-source attempts, in sequence, ending at the first that
\* yields an event; one response per request.
C18_AtMostFourDividendCalls ==
    /\ C18_Chain
    /\ Cardinality(C18_DividendCalls) <= 4

C18_Step ==
    /\ status = 0
    /\ \/ pc' = "done" /\ status' # 0 /\ calls' = calls
       \/ /\ status' = 0
          /\ calls' = Append(calls, pc')
          /\ pc' \notin {"idle", "done"}

\* C18, amended: as stated, except that the quote source is contacted at
\* up to two urls in turn, so that the at most four dividend sources make
\* at most five outbound calls; every step of a request answers it or
\* issues the one next call, and nothing follows the answer.
C18_CallSequence ==
    /\ [](C18_Chain
          /\ Cardinality(C18_SourcesTried) <= 4
          /\ Cardinality(C18_DividendCalls) <= 5)
    /\ [][C18_Step]_vars

\* C18 witness: a fund request that went through every source
C18_Witness ==
    /\ pc = "done"
    /\ status = 200
    /\ calls = C18_Sequence
    /\ Cardinality(C18_SourcesTried) = 4
    /\ Len(yields) = 5

====
